---- MODULE Spec2Model ----
(***************************************************************************)
(* Model of the portfolio site's service worker (sw.js): the install /     *)
(* activate lifecycle, the fetch listener and its three strategy handlers  *)
(* handleImageRequest, handleAssetRequest and handlePageRequest, over the  *)
(* CacheStorage of the origin.  Every await of a handler is one step.      *)
(* And of the page script (script.js) that registers it: the MobileMenu,   *)
(* the FormValidator, the TypingAnimation and the throttled scroll         *)
(* handlers of HeaderEffects and ScrollToTop, one step per event or timer. *)
(***************************************************************************)
EXTENDS Integers, Sequences, FiniteSets, TLC

(* ------------------------------ bounds --------------------------------- *)
\* number of fetch events that can be in progress at the same time
MaxTasks == 2
\* number of fetch events dispatched in one run
MaxEvents == 2
\* number of times the page's components are initialized
MaxInits == 2
\* number of form submissions and success notices pending at one time
MaxSubmits == 2
\* number of texts of a typing animation
MaxTexts == 2
\* the largest currentCharIndex the typing animation is followed to
MaxIndex == 3

Tasks == 1 .. MaxTasks

(* --------------------------- program constants -------------------------- *)
CACHE_NAME == "portfolio-v1.0.0"
STATIC_CACHE == "static-v1.0.0"
DYNAMIC_CACHE == "dynamic-v1.0.0"

\* URLs are sequences of tokens so that String.includes is a real search
RootURL == <<"/">>
IndexURL == <<"/", "index.html">>
StyleURL == <<"/", "style.css">>
ScriptURL == <<"/", "script.js">>
ResumeURL == <<"/", "assets", "/", "resume.pdf">>
LogoURL == <<"/", "assets", "/", "logo.svg">>
AboutURL == <<"/", "about">>
AssetsMark == <<"/", "assets", "/">>
\* a page address whose query string mentions the assets directory
SearchURL == <<"/", "search", "?", "from=", "/", "assets", "/">>

STATIC_ASSETS == <<RootURL, IndexURL, StyleURL, ScriptURL, ResumeURL>>

\* cache names left behind by earlier deployments
StaleNames == {"static-v0.9.0", "dynamic-v0.9.0", CACHE_NAME}

Request(method, destination, url) ==
  [method |-> method, destination |-> destination, url |-> url]

\* the requests the pages make
Requests ==
  { Request("GET", "image", LogoURL),
    Request("GET", "", ResumeURL),
    Request("GET", "", LogoURL),
    Request("GET", "document", IndexURL),
    Request("GET", "document", AboutURL),
    Request("GET", "", AboutURL),
    Request("GET", "document", SearchURL),
    Request("POST", "", AboutURL) }

\* what the network can answer
Bodies == {"a", "b"}
Statuses == {200, 404}

(* ------------------------------ responses ------------------------------- *)
Undefined == [type |-> "undefined", status |-> 0, body |-> ""]
\* a response received from the network (Response.type is "basic")
NetworkResponse(status, body) == [type |-> "basic", status |-> status, body |-> body]
\* new Response(body, { status }) (Response.type is "default")
NewResponse(body, status) == [type |-> "default", status |-> status, body |-> body]
\* the answers of the network: pages of either body, and one error page
NetworkResponses ==
  {NetworkResponse(200, b) : b \in Bodies}
    \cup {NetworkResponse(s, "a") : s \in Statuses}

\* Response.ok
Ok(r) == r.status >= 200 /\ r.status <= 299

\* String.prototype.includes on token sequences
Includes(s, sub) ==
  \E i \in 1 .. (Len(s) - Len(sub) + 1) : SubSeq(s, i, i + Len(sub) - 1) = sub

SeqToSet(s) == {s[i] : i \in 1 .. Len(s)}

(* ---------------------------- CacheStorage ------------------------------ *)
\* caches is a sequence of [name, entries] in creation order (caches.keys())
NoEntries == [u \in {} |-> Undefined]

CacheKeys(cs) == [i \in 1 .. Len(cs) |-> cs[i].name]
CacheNameSet(cs) == {cs[i].name : i \in 1 .. Len(cs)}
CachesHas(cs, name) == name \in CacheNameSet(cs)
CacheIndex(cs, name) == CHOOSE i \in 1 .. Len(cs) : cs[i].name = name
CacheEntries(cs, name) ==
  IF CachesHas(cs, name) THEN cs[CacheIndex(cs, name)].entries ELSE NoEntries

\* caches.open(name): creates the cache when it does not exist
CachesOpen(cs, name) ==
  IF CachesHas(cs, name) THEN cs
  ELSE Append(cs, [name |-> name, entries |-> NoEntries])

\* caches.delete(name)
CachesDelete(cs, name) == SelectSeq(cs, LAMBDA c : c.name # name)

\* cache.put(request, response) on the cache called name
CachePut(cs, name, url, r) ==
  IF CachesHas(cs, name)
  THEN [cs EXCEPT ![CacheIndex(cs, name)].entries = (url :> r) @@ @]
  ELSE cs

RECURSIVE PutAll(_, _, _, _)
\* cache.addAll after every request was fetched successfully
PutAll(cs, name, urls, r) ==
  IF urls = <<>> THEN cs
  ELSE PutAll(CachePut(cs, name, Head(urls), r), name, Tail(urls), r)

RECURSIVE MatchFrom(_, _, _)
MatchFrom(cs, i, url) ==
  IF i > Len(cs) THEN Undefined
  ELSE IF url \in DOMAIN cs[i].entries THEN cs[i].entries[url]
  ELSE MatchFrom(cs, i + 1, url)

\* caches.match(request): the first hit over all caches in creation order
CachesMatch(cs, url) == MatchFrom(cs, 1, url)

\* variant: the unused CACHE_NAME is spared as well
IsStaleSparesCacheName(cacheName) ==
  cacheName # STATIC_CACHE /\ cacheName # DYNAMIC_CACHE /\ cacheName # CACHE_NAME

\* variant: only the dynamic name is spared
IsStaleSparesDynamicOnly(cacheName) == cacheName # DYNAMIC_CACHE

\* the condition of the activate listener's map callback
IsStale(cacheName) == cacheName # STATIC_CACHE /\ cacheName # DYNAMIC_CACHE

(* ------------------------------- state ---------------------------------- *)
VARIABLES
  swState,      \* ServiceWorker.state of this worker
  ipc,          \* position of the install listener's promise chain
  apc,          \* position of the activate listener's promise chain
  cacheNames,   \* the cacheNames array the activate listener got from keys()
  skipped,      \* self.skipWaiting() was called
  claimed,      \* self.clients.claim() was called
  events,       \* number of fetch events dispatched so far
  caches,       \* the origin's CacheStorage
  pc,           \* per fetch event: position of its handler
  req,          \* per fetch event: the request
  networkResponse, \* per fetch event: the handler's networkResponse
  fetchCalls,   \* per fetch event: number of fetch(request) calls made
  response,     \* per fetch event: what respondWith's promise settled with
  put,          \* per fetch event: the cache.put it started, not awaited
  menu,         \* MobileMenu: classes of menu and hamburger, body overflow, focus
  hamburgerListeners, \* number of click listeners on the hamburger
  keydownListeners,   \* the keydown listeners of the document, in order
  submitListeners,    \* number of submit listeners on the form
  fields,       \* the values of the form's fields
  fieldClass,   \* the validation class of each field: "", "valid", "error"
  submitBtn,    \* the submit button: disabled and textContent
  submissions,  \* the originalText of every submitForm that awaits its timer
  notices,      \* number of success messages shown
  anim,         \* the TypingAnimation object, its element and its timer
  scrollY,      \* window.scrollY
  headerScrolled,   \* the header has class scrolled
  buttonVisible,    \* the scroll-to-top button has class visible
  headerInThrottle, \* inThrottle of each HeaderEffects' scroll handler
  buttonInThrottle  \* inThrottle of each ScrollToTop's scroll handler

vars == <<swState, ipc, apc, cacheNames, skipped, claimed, events, caches,
          pc, req, networkResponse, fetchCalls, response, put,
          menu, hamburgerListeners, keydownListeners, submitListeners,
          fields, fieldClass, submitBtn, submissions, notices, anim,
          scrollY, headerScrolled, buttonVisible, headerInThrottle,
          buttonInThrottle>>

lifeVars == <<swState, ipc, apc, cacheNames, skipped, claimed>>
taskVars == <<events, pc, req, networkResponse, fetchCalls, response, put>>
menuVars == <<menu, hamburgerListeners, keydownListeners>>
formVars == <<submitListeners, fields, fieldClass, submitBtn, submissions, notices>>
\* the variables of the page script, which the service worker never touches
scrollVars == <<scrollY, headerScrolled, buttonVisible, headerInThrottle,
                buttonInThrottle>>
pageVars == <<menuVars, formVars, anim, scrollVars>>
\* the variables of the service worker, which the page script never touches
workerVars == <<lifeVars, taskVars, caches>>

NoRequest == [method |-> "", destination |-> "", url |-> <<>>]
NoPut == [url |-> <<>>, response |-> Undefined, state |-> "none"]

StaleCache(name) == [name |-> name,
                     entries |-> (IndexURL :> NetworkResponse(200, "old"))]

\* the stale caches of earlier deployments, in the order they were created
StaleLayouts ==
  { <<>>,
    <<StaleCache("static-v0.9.0")>>,
    <<StaleCache("static-v0.9.0"), StaleCache("dynamic-v0.9.0")>>,
    <<StaleCache(CACHE_NAME)>>,
    <<StaleCache(CACHE_NAME), StaleCache("static-v0.9.0"),
      StaleCache("dynamic-v0.9.0")>> }

(* ----------------------- the page script (script.js) --------------------- *)
\* --- MobileMenu: m is the state of the elements the menu works on ---
\* the page as loaded: no element has class active, nothing is focused
ClosedMenu ==
  [mobileMenu |-> FALSE, hamburger |-> FALSE, overflow |-> "", focus |-> ""]

openMenu(m) ==
  [m EXCEPT !.mobileMenu = TRUE, !.hamburger = TRUE,
            !.overflow = "hidden", !.focus = "closeBtn"]

\* variant: the overflow of the body is not given back
closeMenuKeepsOverflow(m) ==
  [m EXCEPT !.mobileMenu = FALSE, !.hamburger = FALSE, !.focus = "hamburger"]

closeMenu(m) ==
  [m EXCEPT !.mobileMenu = FALSE, !.hamburger = FALSE,
            !.overflow = "", !.focus = "hamburger"]

toggleMenu(m) == IF m.mobileMenu THEN closeMenu(m) ELSE openMenu(m)

RECURSIVE HamburgerListeners(_, _)
\* the click listeners of the hamburger, one per MobileMenu, run in turn
HamburgerListeners(n, m) ==
  IF n = 0 THEN m ELSE HamburgerListeners(n - 1, toggleMenu(m))

\* AccessibilityEnhancements.closeActiveModals on st = [menu, created]
closeActiveModals(st) ==
  IF st.menu.mobileMenu
  THEN [menu |-> closeMenu(st.menu), created |-> st.created + 1]
  ELSE st

RECURSIVE KeydownListeners(_, _, _)
\* the keydown listeners of the document run in the order they were added,
\* for the key Escape; created counts the MobileMenu objects constructed
KeydownListeners(listeners, i, st) ==
  IF i > Len(listeners) THEN st
  ELSE KeydownListeners(listeners, i + 1,
         IF listeners[i] = "MobileMenu"
         THEN (IF st.menu.mobileMenu
               THEN [st EXCEPT !.menu = closeMenu(@)] ELSE st)
         ELSE closeActiveModals(st))

\* --- FormValidator: strings are sequences of characters ---
FieldNames == {"name", "email", "message"}

Letters == {"A", "a", "b", "c", "e", "h", "i", "l", "o", "r", "t"}

FieldValues(f) ==
  CASE f = "name" -> {<<>>, <<" ">>, <<"A", "l">>, <<"A", "1">>}
    [] f = "email" -> {<<>>, <<"a", "@", "b", ".", "c">>, <<"a", "@", "b">>}
    [] OTHER -> {<<>>, <<"h", "i">>,
                 <<"h", "e", "l", "l", "o", " ", "t", "h", "e", "r", "e">>}

RECURSIVE Trim(_)
\* String.trim
Trim(s) ==
  IF s = <<>> THEN s
  ELSE IF Head(s) = " " THEN Trim(Tail(s))
  ELSE IF s[Len(s)] = " " THEN Trim(SubSeq(s, 1, Len(s) - 1))
  ELSE s

\* [^\s@]+ over the characters i .. j of s
NoSpaceNoAt(s, i, j) ==
  i <= j /\ \A k \in i .. j : s[k] \notin {" ", "@"}

\* /^[^\s@]+@[^\s@]+\.[^\s@]+$/.test(s)
emailRegex(s) ==
  \E i, j \in 1 .. Len(s) :
    /\ i < j
    /\ s[i] = "@" /\ s[j] = "."
    /\ NoSpaceNoAt(s, 1, i - 1)
    /\ NoSpaceNoAt(s, i + 1, j - 1)
    /\ NoSpaceNoAt(s, j + 1, Len(s))

\* /^[a-zA-Z\s]+$/.test(s)
nameRegex(s) ==
  s # <<>> /\ \A k \in 1 .. Len(s) : s[k] \in Letters \cup {" "}

\* the result of validateField for a required field of the contact form:
\* name is a text input, email an email input, message a textarea
validateField(f, raw) ==
  LET value == Trim(raw) IN
  IF value = <<>> THEN FALSE
  ELSE IF f = "email" THEN emailRegex(value)
  ELSE IF f = "name" THEN nameRegex(value)
  ELSE IF f = "message" /\ Len(value) < 10 THEN FALSE
  ELSE TRUE

\* validateForm: every required field is validated
validateForm(fs) == \A f \in FieldNames : validateField(f, fs[f])

\* showFieldValidation: the class validateField leaves on the field
showFieldValidation(f, raw) == IF validateField(f, raw) THEN "valid" ELSE "error"

\* the text of the submit button in the page, and the textContent of
\* '<span class="loading-spinner"></span> Sending...'
ButtonText == "Send Message"
SendingText == " Sending..."

\* submitForm up to its await, on st = [btn, queue]: originalText is taken
\* from the button and kept until the timer of this submission fires
submitFormStart(st) ==
  [btn |-> [disabled |-> TRUE, textContent |-> SendingText],
   queue |-> Append(st.queue, st.btn.textContent)]

RECURSIVE SubmitListeners(_, _)
\* the submit listeners of the form, one per FormValidator, run in turn on a
\* form that is valid
SubmitListeners(n, st) ==
  IF n = 0 THEN st ELSE SubmitListeners(n - 1, submitFormStart(st))

\* --- TypingAnimation ---
Texts == {<<>>, <<"a">>, <<"a", "b">>, <<"a", "b", "c">>}

\* the lists of at most n texts
TextLists(n) == UNION {[1 .. k -> Texts] : k \in 0 .. n}

\* String.substring(0, k)
Substring0(s, k) ==
  SubSeq(s, 1, IF k < 0 THEN 0 ELSE IF k > Len(s) THEN Len(s) ELSE k)

\* the fields the constructor sets before init()
NewTypingAnimation(texts, loop) ==
  [texts |-> texts, loop |-> loop,
   currentTextIndex |-> 0, currentCharIndex |-> 0, isDeleting |-> FALSE,
   textContent |-> <<>>, timer |-> FALSE]

\* one call of type(); timer says that setTimeout(() => this.type()) was called
type(a) ==
  LET currentText == a.texts[a.currentTextIndex + 1] IN
  IF a.isDeleting
  THEN LET deleted == [a EXCEPT
                         !.textContent = Substring0(currentText, a.currentCharIndex - 1),
                         !.currentCharIndex = @ - 1,
                         !.timer = TRUE]
       IN IF deleted.currentCharIndex = 0
          THEN [deleted EXCEPT
                  !.isDeleting = FALSE,
                  !.currentTextIndex = (@ + 1) % Len(a.texts)]
          ELSE deleted
  ELSE LET typed == [a EXCEPT
                       !.textContent = Substring0(currentText, a.currentCharIndex + 1),
                       !.currentCharIndex = @ + 1]
       IN IF typed.currentCharIndex = Len(currentText)
          THEN [typed EXCEPT !.isDeleting = IF a.loop THEN TRUE ELSE @,
                             !.timer = a.loop]
          ELSE [typed EXCEPT !.timer = TRUE]

\* new TypingAnimation(element, texts, { loop }): init() calls type() unless
\* the list of texts is empty
TypingAnimation(texts, loop) ==
  IF Len(texts) = 0
  THEN NewTypingAnimation(texts, loop)
  ELSE type(NewTypingAnimation(texts, loop))

\* --- HeaderEffects and ScrollToTop ---
\* the positions the window is scrolled to
ScrollPositions == {0, 100, 101, 300, 301}

\* whether updateHeaderOnScroll leaves class scrolled on the header
updateHeaderOnScroll(y) == y > 100

\* whether toggleButtonVisibility leaves class visible on the button
toggleButtonVisibility(y) == y > 300

\* the functions that throttle returned are called for one scroll event: a
\* function whose inThrottle is not set calls func, so the class becomes
\* now; the others do nothing and the class stays was
Throttled(inThrottle, was, now) ==
  IF \E i \in 1 .. Len(inThrottle) : ~inThrottle[i] THEN now ELSE was

\* every function that throttle returned has set its inThrottle
AllInThrottle(inThrottle) == [i \in 1 .. Len(inThrottle) |-> TRUE]

\* the page after new PortfolioApp(): one MobileMenu, one FormValidator, one
\* AccessibilityEnhancements, one HeaderEffects and one ScrollToTop have
\* added their listeners
PortfolioApp ==
  /\ menu = ClosedMenu
  /\ hamburgerListeners = 1
  /\ keydownListeners = <<"MobileMenu", "AccessibilityEnhancements">>
  /\ submitListeners = 1
  /\ fields = [f \in FieldNames |-> <<>>]
  /\ fieldClass = [f \in FieldNames |-> ""]
  /\ submitBtn = [disabled |-> FALSE, textContent |-> ButtonText]
  /\ submissions = <<>>
  /\ notices = 0
  /\ scrollY = 0
  /\ headerScrolled = updateHeaderOnScroll(0)
  /\ buttonVisible = toggleButtonVisibility(0)
  /\ headerInThrottle = <<FALSE>>
  /\ buttonInThrottle = <<FALSE>>

\* navigator.serviceWorker.register('/sw.js'): the worker starts installing
ServiceWorkerRegistered ==
  /\ swState = "installing"
  /\ ipc = "open"
  /\ apc = "idle"
  /\ cacheNames = {}
  /\ skipped = FALSE
  /\ claimed = FALSE
  /\ events = 0
  /\ caches \in StaleLayouts
  /\ pc = [t \in Tasks |-> "idle"]
  /\ req = [t \in Tasks |-> NoRequest]
  /\ networkResponse = [t \in Tasks |-> Undefined]
  /\ fetchCalls = [t \in Tasks |-> 0]
  /\ response = [t \in Tasks |-> Undefined]
  /\ put = [t \in Tasks |-> NoPut]

\* the page is loaded, without an element for a typing animation, and it
\* registers the service worker
Init ==
  /\ PortfolioApp
  /\ anim = NewTypingAnimation(<<>>, TRUE)
  /\ ServiceWorkerRegistered

(* ------------------------- install listener ----------------------------- *)
\* variant: the chain is not given to event.waitUntil, so the host takes the
\* worker to installed as soon as the listener returns
InstallOpenNoWaitUntil ==
  /\ swState = "installing" /\ ipc = "open"
  /\ caches' = CachesOpen(caches, STATIC_CACHE)
  /\ ipc' = "addAll"
  /\ swState' = "installed"
  /\ UNCHANGED <<apc, cacheNames, skipped, claimed>>
  /\ UNCHANGED taskVars
  /\ UNCHANGED pageVars

\* variant: the promise of cache.addAll is not returned to the chain, which
\* goes on to skipWaiting while the population is still under way
InstallOpenAddAllNotReturned ==
  /\ swState = "installing" /\ ipc = "open"
  /\ caches' = CachesOpen(caches, STATIC_CACHE)
  /\ ipc' = "skipWaiting"
  /\ UNCHANGED <<swState, apc, cacheNames, skipped, claimed>>
  /\ UNCHANGED taskVars
  /\ UNCHANGED pageVars

\* caches.open(STATIC_CACHE)
InstallOpen ==
  /\ swState = "installing" /\ ipc = "open"
  /\ caches' = CachesOpen(caches, STATIC_CACHE)
  /\ ipc' = "addAll"
  /\ UNCHANGED <<swState, apc, cacheNames, skipped, claimed>>
  /\ UNCHANGED taskVars
  /\ UNCHANGED pageVars

\* variant: every asset is added on its own, so the ones that were fetched
\* are written although another one failed
InstallAddEach ==
  /\ swState = "installing" /\ ipc = "addAll"
  /\ \E failed \in SUBSET SeqToSet(STATIC_ASSETS) :
       /\ caches' = PutAll(caches, STATIC_CACHE,
                           SelectSeq(STATIC_ASSETS, LAMBDA u : u \notin failed),
                           NetworkResponse(200, "a"))
       /\ IF failed = {}
          THEN ipc' = "skipWaiting" /\ swState' = swState
          ELSE ipc' = "rejected" /\ swState' = "redundant"
  /\ UNCHANGED <<apc, cacheNames, skipped, claimed>>
  /\ UNCHANGED taskVars
  /\ UNCHANGED pageVars

\* cache.addAll(STATIC_ASSETS): every asset is fetched; the entries are
\* written only when every fetch gave an ok response, else the chain rejects
InstallAddAll ==
  /\ swState = "installing" /\ ipc = "addAll"
  /\ \E failed \in SUBSET SeqToSet(STATIC_ASSETS) :
       IF failed = {}
       THEN /\ caches' = PutAll(caches, STATIC_CACHE, STATIC_ASSETS,
                                NetworkResponse(200, "a"))
            /\ ipc' = "skipWaiting"
            /\ swState' = swState
       ELSE /\ caches' = caches
            /\ ipc' = "rejected"
            /\ swState' = "redundant"
  /\ UNCHANGED <<apc, cacheNames, skipped, claimed>>
  /\ UNCHANGED taskVars
  /\ UNCHANGED pageVars

\* variant: the chain ends without self.skipWaiting()
InstallNoSkipWaiting ==
  /\ swState = "installing" /\ ipc = "skipWaiting"
  /\ ipc' = "done"
  /\ swState' = "installed"
  /\ UNCHANGED <<apc, cacheNames, skipped, claimed, caches>>
  /\ UNCHANGED taskVars
  /\ UNCHANGED pageVars

\* variant: skipWaiting is called in a finally, also after a rejection
InstallSkipWaitingFinally ==
  /\ ipc \in {"skipWaiting", "rejected"} /\ ~skipped
  /\ skipped' = TRUE
  /\ ipc' = IF ipc = "rejected" THEN "rejected" ELSE "done"
  /\ swState' = IF ipc = "rejected" THEN swState ELSE "installed"
  /\ UNCHANGED <<apc, cacheNames, claimed, caches>>
  /\ UNCHANGED taskVars
  /\ UNCHANGED pageVars

\* self.skipWaiting(); the waitUntil promise settles and the worker is installed
InstallSkipWaiting ==
  /\ swState = "installing" /\ ipc = "skipWaiting"
  /\ skipped' = TRUE
  /\ ipc' = "done"
  /\ swState' = "installed"
  /\ UNCHANGED <<apc, cacheNames, claimed, caches>>
  /\ UNCHANGED taskVars
  /\ UNCHANGED pageVars

(* ------------------------- activate listener ---------------------------- *)
\* variant: the chain is not given to event.waitUntil, so the host takes the
\* worker to activated as soon as the listener returns
ActivateKeysNoWaitUntil ==
  /\ swState = "installed" /\ skipped
  /\ swState' = "activated"
  /\ cacheNames' = CacheNameSet(caches)
  /\ apc' = "deleting"
  /\ UNCHANGED <<ipc, skipped, claimed, caches>>
  /\ UNCHANGED taskVars
  /\ UNCHANGED pageVars

\* the host activates the installed worker (skipWaiting was called) and the
\* activate listener calls caches.keys()
ActivateKeys ==
  /\ swState = "installed" /\ skipped
  /\ swState' = "activating"
  /\ cacheNames' = CacheNameSet(caches)
  /\ apc' = "deleting"
  /\ UNCHANGED <<ipc, skipped, claimed, caches>>
  /\ UNCHANGED taskVars
  /\ UNCHANGED pageVars

\* one caches.delete(cacheName) of the Promise.all settles
ActivateDelete ==
  /\ swState = "activating" /\ apc = "deleting"
  /\ \E cacheName \in cacheNames :
       /\ IsStale(cacheName)
       /\ CachesHas(caches, cacheName)
       /\ caches' = CachesDelete(caches, cacheName)
  /\ UNCHANGED <<swState, ipc, apc, cacheNames, skipped, claimed>>
  /\ UNCHANGED taskVars
  /\ UNCHANGED pageVars

\* variant: the map callback does not return the promise of caches.delete, so
\* Promise.all settles while the deletions are still under way
ActivateClaimDeletesNotReturned ==
  /\ swState = "activating" /\ apc = "deleting"
  /\ claimed' = TRUE
  /\ apc' = "claim"
  /\ UNCHANGED <<swState, ipc, cacheNames, skipped, caches>>
  /\ UNCHANGED taskVars
  /\ UNCHANGED pageVars

\* Promise.all settled: self.clients.claim()
ActivateClaim ==
  /\ swState = "activating" /\ apc = "deleting"
  /\ \A cacheName \in cacheNames :
       IsStale(cacheName) => ~CachesHas(caches, cacheName)
  /\ claimed' = TRUE
  /\ apc' = "claim"
  /\ UNCHANGED <<swState, ipc, cacheNames, skipped, caches>>
  /\ UNCHANGED taskVars
  /\ UNCHANGED pageVars

\* the waitUntil promise settled: the worker is activated and the chain's
\* cacheNames is gone
ActivateDone ==
  /\ swState = "activating" /\ apc = "claim"
  /\ apc' = "done"
  /\ swState' = "activated"
  /\ cacheNames' = {}
  /\ UNCHANGED <<ipc, skipped, claimed, caches>>
  /\ UNCHANGED taskVars
  /\ UNCHANGED pageVars

(* --------------------------- fetch listener ----------------------------- *)
\* variant: the method is not looked at
ClassifyAnyMethod(request) ==
  IF request.destination = "image" THEN "image"
  ELSE IF Includes(request.url, AssetsMark) THEN "asset"
  ELSE "page"

\* the branch of the fetch listener a request takes
Classify(request) ==
  IF request.method # "GET" THEN "none"
  ELSE IF request.destination = "image" THEN "image"
  ELSE IF Includes(request.url, AssetsMark) THEN "asset"
  ELSE "page"

Settled == {"idle", "resolved", "rejected", "passthrough"}

\* the position the fetch listener leaves a request at
Dispatched(request) ==
  CASE Classify(request) = "none" -> "passthrough"
    [] Classify(request) = "image" -> "image_match"
    [] Classify(request) = "asset" -> "asset_match"
    [] OTHER -> "page_fetch"

\* the promise given to respondWith resolves with r
Resolve(t, r) ==
  /\ pc' = [pc EXCEPT ![t] = "resolved"]
  /\ response' = [response EXCEPT ![t] = r]

\* a fetch event is dispatched to the activated worker; the listener returns
\* without respondWith for a non-GET request and else starts one handler.
\* The event is kept in the first slot whose event is settled.
FetchEvent(t) ==
  /\ swState = "activated"
  /\ pc[t] \in Settled
  /\ \A s \in 1 .. t - 1 : pc[s] \notin Settled
  /\ events < MaxEvents
  /\ events' = events + 1
  /\ put[t].state # "pending"
  /\ \E request \in Requests :
       /\ req' = [req EXCEPT ![t] = request]
       /\ pc' = [pc EXCEPT ![t] = Dispatched(request)]
  /\ networkResponse' = [networkResponse EXCEPT ![t] = Undefined]
  /\ fetchCalls' = [fetchCalls EXCEPT ![t] = 0]
  /\ response' = [response EXCEPT ![t] = Undefined]
  /\ put' = [put EXCEPT ![t] = NoPut]
  /\ UNCHANGED caches
  /\ UNCHANGED lifeVars
  /\ UNCHANGED pageVars

\* a page makes a request while the worker is activating: the host holds the
\* fetch event back until the worker is activated
FetchArrives(t) ==
  /\ swState = "activating"
  /\ pc[t] = "idle"
  /\ \A s \in 1 .. t - 1 : pc[s] # "idle"
  /\ events < MaxEvents
  /\ events' = events + 1
  /\ \E request \in Requests : req' = [req EXCEPT ![t] = request]
  /\ pc' = [pc EXCEPT ![t] = "held"]
  /\ UNCHANGED <<networkResponse, fetchCalls, response, put, caches>>
  /\ UNCHANGED lifeVars
  /\ UNCHANGED pageVars

\* the worker is activated: the held fetch event reaches the fetch listener
FetchEventHeld(t) ==
  /\ swState = "activated"
  /\ pc[t] = "held"
  /\ pc' = [pc EXCEPT ![t] = Dispatched(req[t])]
  /\ UNCHANGED <<events, req, networkResponse, fetchCalls, response, put, caches>>
  /\ UNCHANGED lifeVars
  /\ UNCHANGED pageVars

(* ------------------------- handleImageRequest --------------------------- *)
\* variant: the cached response is looked up but not returned
ImageMatchNoReturn(t) ==
  /\ pc[t] = "image_match"
  /\ pc' = [pc EXCEPT ![t] = "image_fetch"]
  /\ UNCHANGED <<events, req, networkResponse, fetchCalls, response, put, caches>>
  /\ UNCHANGED lifeVars
  /\ UNCHANGED pageVars

\* const cachedResponse = await caches.match(request); return it when found
ImageMatch(t) ==
  /\ pc[t] = "image_match"
  /\ LET cachedResponse == CachesMatch(caches, req[t].url) IN
       IF cachedResponse # Undefined
       THEN Resolve(t, cachedResponse)
       ELSE /\ pc' = [pc EXCEPT ![t] = "image_fetch"]
            /\ UNCHANGED response
  /\ UNCHANGED <<events, req, networkResponse, fetchCalls, put, caches>>
  /\ UNCHANGED lifeVars
  /\ UNCHANGED pageVars

\* variant: no try/catch around the fetch, a rejection reaches respondWith
ImageFetchNoCatch(t) ==
  /\ pc[t] = "image_fetch"
  /\ fetchCalls' = [fetchCalls EXCEPT ![t] = @ + 1]
  /\ \/ \E r \in NetworkResponses :
          /\ networkResponse' = [networkResponse EXCEPT ![t] = r]
          /\ IF Ok(r)
             THEN /\ pc' = [pc EXCEPT ![t] = "image_open"]
                  /\ UNCHANGED response
             ELSE Resolve(t, r)
     \/ /\ pc' = [pc EXCEPT ![t] = "rejected"]
        /\ UNCHANGED <<networkResponse, response>>
  /\ UNCHANGED <<events, req, put, caches>>
  /\ UNCHANGED lifeVars
  /\ UNCHANGED pageVars

\* await fetch(request): a response of any status, or a rejection that the
\* catch block turns into new Response('', { status: 404 })
ImageFetch(t) ==
  /\ pc[t] = "image_fetch"
  /\ fetchCalls' = [fetchCalls EXCEPT ![t] = @ + 1]
  /\ \/ \E r \in NetworkResponses :
          /\ networkResponse' = [networkResponse EXCEPT ![t] = r]
          /\ IF Ok(r)
             THEN /\ pc' = [pc EXCEPT ![t] = "image_open"]
                  /\ UNCHANGED response
             ELSE Resolve(t, r)
     \/ /\ Resolve(t, NewResponse("", 404))
        /\ UNCHANGED networkResponse
  /\ UNCHANGED <<events, req, put, caches>>
  /\ UNCHANGED lifeVars
  /\ UNCHANGED pageVars

\* await caches.open(DYNAMIC_CACHE); cache.put(...) is started and not
\* awaited; return networkResponse
ImageOpenPut(t) ==
  /\ pc[t] = "image_open"
  /\ caches' = CachesOpen(caches, DYNAMIC_CACHE)
  /\ put' = [put EXCEPT ![t] = [url |-> req[t].url,
                                response |-> networkResponse[t],
                                state |-> "pending"]]
  /\ Resolve(t, networkResponse[t])
  /\ UNCHANGED <<events, req, networkResponse, fetchCalls>>
  /\ UNCHANGED lifeVars
  /\ UNCHANGED pageVars

(* ------------------------- handleAssetRequest --------------------------- *)
AssetMatch(t) ==
  /\ pc[t] = "asset_match"
  /\ LET cachedResponse == CachesMatch(caches, req[t].url) IN
       IF cachedResponse # Undefined
       THEN Resolve(t, cachedResponse)
       ELSE /\ pc' = [pc EXCEPT ![t] = "asset_fetch"]
            /\ UNCHANGED response
  /\ UNCHANGED <<events, req, networkResponse, fetchCalls, put, caches>>
  /\ UNCHANGED lifeVars
  /\ UNCHANGED pageVars

AssetFetch(t) ==
  /\ pc[t] = "asset_fetch"
  /\ fetchCalls' = [fetchCalls EXCEPT ![t] = @ + 1]
  /\ \/ \E r \in NetworkResponses :
          /\ networkResponse' = [networkResponse EXCEPT ![t] = r]
          /\ IF Ok(r)
             THEN /\ pc' = [pc EXCEPT ![t] = "asset_open"]
                  /\ UNCHANGED response
             ELSE Resolve(t, r)
     \/ /\ Resolve(t, NewResponse("", 404))
        /\ UNCHANGED networkResponse
  /\ UNCHANGED <<events, req, put, caches>>
  /\ UNCHANGED lifeVars
  /\ UNCHANGED pageVars

AssetOpenPut(t) ==
  /\ pc[t] = "asset_open"
  /\ caches' = CachesOpen(caches, DYNAMIC_CACHE)
  /\ put' = [put EXCEPT ![t] = [url |-> req[t].url,
                                response |-> networkResponse[t],
                                state |-> "pending"]]
  /\ Resolve(t, networkResponse[t])
  /\ UNCHANGED <<events, req, networkResponse, fetchCalls>>
  /\ UNCHANGED lifeVars
  /\ UNCHANGED pageVars

(* -------------------------- handlePageRequest --------------------------- *)
\* variant: one network retrieval at a time, each waiting for the one before
PageFetchSerialized(t) ==
  /\ pc[t] = "page_fetch"
  /\ \A s \in Tasks \ {t} :
       pc[s] \notin {"image_fetch", "asset_fetch", "page_fetch", "hung"}
  /\ fetchCalls' = [fetchCalls EXCEPT ![t] = @ + 1]
  /\ \/ \E r \in NetworkResponses :
          /\ networkResponse' = [networkResponse EXCEPT ![t] = r]
          /\ IF Ok(r)
             THEN /\ pc' = [pc EXCEPT ![t] = "page_open"]
                  /\ UNCHANGED response
             ELSE Resolve(t, r)
     \/ /\ pc' = [pc EXCEPT ![t] = "page_match"]
        /\ UNCHANGED <<networkResponse, response>>
  /\ UNCHANGED <<events, req, put, caches>>
  /\ UNCHANGED lifeVars
  /\ UNCHANGED pageVars

\* variant: the response is stored whatever its status
PageFetchNoOkCheck(t) ==
  /\ pc[t] = "page_fetch"
  /\ fetchCalls' = [fetchCalls EXCEPT ![t] = @ + 1]
  /\ \/ \E r \in NetworkResponses :
          /\ networkResponse' = [networkResponse EXCEPT ![t] = r]
          /\ pc' = [pc EXCEPT ![t] = "page_open"]
          /\ UNCHANGED response
     \/ /\ pc' = [pc EXCEPT ![t] = "page_match"]
        /\ UNCHANGED <<networkResponse, response>>
  /\ UNCHANGED <<events, req, put, caches>>
  /\ UNCHANGED lifeVars
  /\ UNCHANGED pageVars

\* await fetch(request): a rejection enters the catch block
PageFetch(t) ==
  /\ pc[t] = "page_fetch"
  /\ fetchCalls' = [fetchCalls EXCEPT ![t] = @ + 1]
  /\ \/ \E r \in NetworkResponses :
          /\ networkResponse' = [networkResponse EXCEPT ![t] = r]
          /\ IF Ok(r)
             THEN /\ pc' = [pc EXCEPT ![t] = "page_open"]
                  /\ UNCHANGED response
             ELSE Resolve(t, r)
     \/ /\ pc' = [pc EXCEPT ![t] = "page_match"]
        /\ UNCHANGED <<networkResponse, response>>
  /\ UNCHANGED <<events, req, put, caches>>
  /\ UNCHANGED lifeVars
  /\ UNCHANGED pageVars

\* variant: DYNAMIC is deleted and opened anew before every write
PageOpenPutFreshCache(t) ==
  /\ pc[t] = "page_open"
  /\ caches' = CachesOpen(CachesDelete(caches, DYNAMIC_CACHE), DYNAMIC_CACHE)
  /\ put' = [put EXCEPT ![t] = [url |-> req[t].url,
                                response |-> networkResponse[t],
                                state |-> "pending"]]
  /\ Resolve(t, networkResponse[t])
  /\ UNCHANGED <<events, req, networkResponse, fetchCalls>>
  /\ UNCHANGED lifeVars
  /\ UNCHANGED pageVars

\* variant: the response is returned and never stored
PageOpenNoPut(t) ==
  /\ pc[t] = "page_open"
  /\ caches' = CachesOpen(caches, DYNAMIC_CACHE)
  /\ Resolve(t, networkResponse[t])
  /\ UNCHANGED <<events, req, networkResponse, fetchCalls, put>>
  /\ UNCHANGED lifeVars
  /\ UNCHANGED pageVars

\* await caches.open(DYNAMIC_CACHE); cache.put(...) is started and not
\* awaited; return networkResponse
PageOpenPut(t) ==
  /\ pc[t] = "page_open"
  /\ caches' = CachesOpen(caches, DYNAMIC_CACHE)
  /\ put' = [put EXCEPT ![t] = [url |-> req[t].url,
                                response |-> networkResponse[t],
                                state |-> "pending"]]
  /\ Resolve(t, networkResponse[t])
  /\ UNCHANGED <<events, req, networkResponse, fetchCalls>>
  /\ UNCHANGED lifeVars
  /\ UNCHANGED pageVars

\* variant: the home document is the fallback whatever the destination
PageMatchHomeForAll(t) ==
  /\ pc[t] = "page_match"
  /\ LET cachedResponse == CachesMatch(caches, req[t].url) IN
       IF cachedResponse # Undefined
       THEN Resolve(t, cachedResponse)
       ELSE /\ pc' = [pc EXCEPT ![t] = "page_home"]
            /\ UNCHANGED response
  /\ UNCHANGED <<events, req, networkResponse, fetchCalls, put, caches>>
  /\ UNCHANGED lifeVars
  /\ UNCHANGED pageVars

\* variant: the last resort is the empty 404 of the asset handlers
PageMatchOffline404(t) ==
  /\ pc[t] = "page_match"
  /\ LET cachedResponse == CachesMatch(caches, req[t].url) IN
       IF cachedResponse # Undefined
       THEN Resolve(t, cachedResponse)
       ELSE IF req[t].destination = "document"
       THEN /\ pc' = [pc EXCEPT ![t] = "page_home"]
            /\ UNCHANGED response
       ELSE Resolve(t, NewResponse("", 404))
  /\ UNCHANGED <<events, req, networkResponse, fetchCalls, put, caches>>
  /\ UNCHANGED lifeVars
  /\ UNCHANGED pageVars

\* catch: const cachedResponse = await caches.match(request)
PageMatch(t) ==
  /\ pc[t] = "page_match"
  /\ LET cachedResponse == CachesMatch(caches, req[t].url) IN
       IF cachedResponse # Undefined
       THEN Resolve(t, cachedResponse)
       ELSE IF req[t].destination = "document"
       THEN /\ pc' = [pc EXCEPT ![t] = "page_home"]
            /\ UNCHANGED response
       ELSE Resolve(t, NewResponse("Offline", 503))
  /\ UNCHANGED <<events, req, networkResponse, fetchCalls, put, caches>>
  /\ UNCHANGED lifeVars
  /\ UNCHANGED pageVars

\* return caches.match('/index.html'): the handler's promise resolves with
\* whatever the lookup gives, a response or undefined
PageHome(t) ==
  /\ pc[t] = "page_home"
  /\ Resolve(t, CachesMatch(caches, IndexURL))
  /\ UNCHANGED <<events, req, networkResponse, fetchCalls, put, caches>>
  /\ UNCHANGED lifeVars
  /\ UNCHANGED pageVars

(* ------------------------------ cache.put ------------------------------- *)
\* variant: the write goes to the cache of the static assets
PutCompleteIntoStatic(t) ==
  /\ put[t].state = "pending"
  /\ caches' = CachePut(caches, STATIC_CACHE, put[t].url, put[t].response)
  /\ put' = [put EXCEPT ![t].state = "done"]
  /\ UNCHANGED <<events, pc, req, networkResponse, fetchCalls, response>>
  /\ UNCHANGED lifeVars
  /\ UNCHANGED pageVars

\* variant: an entry that exists is kept (the semantics of a guarded add)
PutCompleteKeepsExisting(t) ==
  /\ put[t].state = "pending"
  /\ caches' = IF put[t].url \in DOMAIN CacheEntries(caches, DYNAMIC_CACHE)
               THEN caches
               ELSE CachePut(caches, DYNAMIC_CACHE, put[t].url, put[t].response)
  /\ put' = [put EXCEPT ![t].state = "done"]
  /\ UNCHANGED <<events, pc, req, networkResponse, fetchCalls, response>>
  /\ UNCHANGED lifeVars
  /\ UNCHANGED pageVars

\* a cache.put started by a handler completes in the cache it was opened on
PutComplete(t) ==
  /\ put[t].state = "pending"
  /\ caches' = CachePut(caches, DYNAMIC_CACHE, put[t].url, put[t].response)
  /\ put' = [put EXCEPT ![t].state = "done"]
  /\ UNCHANGED <<events, pc, req, networkResponse, fetchCalls, response>>
  /\ UNCHANGED lifeVars
  /\ UNCHANGED pageVars

(* ------------------- the partition store can fail ----------------------- *)
\* caches.match rejects in handleImageRequest: the catch block answers 404
ImageMatchRejects(t) ==
  /\ pc[t] = "image_match"
  /\ Resolve(t, NewResponse("", 404))
  /\ UNCHANGED <<events, req, networkResponse, fetchCalls, put, caches>>
  /\ UNCHANGED lifeVars
  /\ UNCHANGED pageVars

\* caches.open rejects in handleImageRequest: the catch block answers 404
ImageOpenRejects(t) ==
  /\ pc[t] = "image_open"
  /\ Resolve(t, NewResponse("", 404))
  /\ UNCHANGED <<events, req, networkResponse, fetchCalls, put, caches>>
  /\ UNCHANGED lifeVars
  /\ UNCHANGED pageVars

AssetMatchRejects(t) ==
  /\ pc[t] = "asset_match"
  /\ Resolve(t, NewResponse("", 404))
  /\ UNCHANGED <<events, req, networkResponse, fetchCalls, put, caches>>
  /\ UNCHANGED lifeVars
  /\ UNCHANGED pageVars

AssetOpenRejects(t) ==
  /\ pc[t] = "asset_open"
  /\ Resolve(t, NewResponse("", 404))
  /\ UNCHANGED <<events, req, networkResponse, fetchCalls, put, caches>>
  /\ UNCHANGED lifeVars
  /\ UNCHANGED pageVars

\* caches.open rejects in handlePageRequest: the catch block is entered
\* although the network answered
PageOpenRejects(t) ==
  /\ pc[t] = "page_open"
  /\ pc' = [pc EXCEPT ![t] = "page_match"]
  /\ UNCHANGED <<events, req, networkResponse, fetchCalls, response, put, caches>>
  /\ UNCHANGED lifeVars
  /\ UNCHANGED pageVars

\* caches.match rejects inside the catch block: nothing catches it and the
\* promise given to respondWith rejects
PageMatchRejects(t) ==
  /\ pc[t] = "page_match"
  /\ pc' = [pc EXCEPT ![t] = "rejected"]
  /\ UNCHANGED <<events, req, networkResponse, fetchCalls, response, put, caches>>
  /\ UNCHANGED lifeVars
  /\ UNCHANGED pageVars

\* caches.match('/index.html') rejects
PageHomeRejects(t) ==
  /\ pc[t] = "page_home"
  /\ pc' = [pc EXCEPT ![t] = "rejected"]
  /\ UNCHANGED <<events, req, networkResponse, fetchCalls, response, put, caches>>
  /\ UNCHANGED lifeVars
  /\ UNCHANGED pageVars

\* a started cache.put rejects: nothing is written and nobody is told
PutRejects(t) ==
  /\ put[t].state = "pending"
  /\ put' = [put EXCEPT ![t].state = "failed"]
  /\ UNCHANGED <<events, pc, req, networkResponse, fetchCalls, response, caches>>
  /\ UNCHANGED lifeVars
  /\ UNCHANGED pageVars

\* the store is shared: another party deletes a partition by name
ExternalDelete ==
  /\ swState = "activated"
  /\ \E name \in CacheNameSet(caches) : caches' = CachesDelete(caches, name)
  /\ UNCHANGED lifeVars
  /\ UNCHANGED taskVars
  /\ UNCHANGED pageVars

(* ------------------------- a network that hangs ------------------------- *)
\* await fetch(request): the promise never settles, the handler stays there
FetchHangs(t) ==
  /\ pc[t] \in {"image_fetch", "asset_fetch", "page_fetch"}
  /\ pc' = [pc EXCEPT ![t] = "hung"]
  /\ fetchCalls' = [fetchCalls EXCEPT ![t] = @ + 1]
  /\ UNCHANGED <<events, req, networkResponse, response, put, caches>>
  /\ UNCHANGED lifeVars
  /\ UNCHANGED pageVars

\* the continuation of the handler of one fetch event
HandlerStep(t) ==
  \/ ImageMatch(t) \/ ImageFetch(t) \/ ImageOpenPut(t)
  \/ AssetMatch(t) \/ AssetFetch(t) \/ AssetOpenPut(t)
  \/ PageFetch(t) \/ PageOpenPut(t) \/ PageMatch(t) \/ PageHome(t)

(* ----------------------------- page events ------------------------------ *)
\* portfolioApp.reinitialize(): initializeComponents constructs a MobileMenu,
\* a FormValidator and an AccessibilityEnhancements again, each adding its
\* listeners once more
reinitialize ==
  /\ submitListeners < MaxInits
  /\ hamburgerListeners' = hamburgerListeners + 1
  /\ keydownListeners' =
       keydownListeners \o <<"MobileMenu", "AccessibilityEnhancements">>
  /\ submitListeners' = submitListeners + 1
  /\ headerInThrottle' = Append(headerInThrottle, FALSE)
  /\ buttonInThrottle' = Append(buttonInThrottle, FALSE)
  /\ headerScrolled' = updateHeaderOnScroll(scrollY)
  /\ buttonVisible' = toggleButtonVisibility(scrollY)
  /\ UNCHANGED <<menu, fields, fieldClass, submitBtn, submissions, notices>>
  /\ UNCHANGED <<workerVars, anim, scrollY>>

\* a click on the hamburger
HamburgerClick ==
  /\ menu' = HamburgerListeners(hamburgerListeners, menu)
  /\ UNCHANGED <<hamburgerListeners, keydownListeners>>
  /\ UNCHANGED <<workerVars, scrollVars, formVars, anim>>

\* a click on the close button: every MobileMenu's listener calls closeMenu
CloseButtonClick ==
  /\ menu' = closeMenu(menu)
  /\ UNCHANGED <<hamburgerListeners, keydownListeners>>
  /\ UNCHANGED <<workerVars, scrollVars, formVars, anim>>

\* a click on a link of the open menu
MenuLinkClick ==
  /\ menu.mobileMenu
  /\ menu' = closeMenu(menu)
  /\ UNCHANGED <<hamburgerListeners, keydownListeners>>
  /\ UNCHANGED <<workerVars, scrollVars, formVars, anim>>

\* a click on the open menu's backdrop (e.target === this.mobileMenu)
OutsideClick ==
  /\ menu.mobileMenu
  /\ menu' = closeMenu(menu)
  /\ UNCHANGED <<hamburgerListeners, keydownListeners>>
  /\ UNCHANGED <<workerVars, scrollVars, formVars, anim>>

\* the key Escape is pressed: the document's keydown listeners run; every
\* MobileMenu that closeActiveModals constructs adds its listeners
EscapeKey ==
  /\ LET st == KeydownListeners(keydownListeners, 1,
                                [menu |-> menu, created |-> 0])
     IN /\ menu' = st.menu
        /\ hamburgerListeners' = hamburgerListeners + st.created
        /\ keydownListeners' =
             keydownListeners \o [i \in 1 .. st.created |-> "MobileMenu"]
  /\ UNCHANGED <<workerVars, scrollVars, formVars, anim>>

\* the user changes a field: the input listener calls clearErrors
Input(f) ==
  /\ \E v \in FieldValues(f) \ {fields[f]} : fields' = [fields EXCEPT ![f] = v]
  /\ fieldClass' = [fieldClass EXCEPT ![f] = ""]
  /\ UNCHANGED <<submitListeners, submitBtn, submissions, notices>>
  /\ UNCHANGED <<workerVars, scrollVars, menuVars, anim>>

\* the field loses the focus: the blur listener calls validateField
Blur(f) ==
  /\ fieldClass' = [fieldClass EXCEPT ![f] = showFieldValidation(f, fields[f])]
  /\ UNCHANGED <<submitListeners, fields, submitBtn, submissions, notices>>
  /\ UNCHANGED <<workerVars, scrollVars, menuVars, anim>>

\* variant: validateForm stops at the first field that is not valid, in the
\* order name, email, message, and leaves the fields after it as they are
SubmitShortCircuit ==
  /\ validateForm(fields)
       => Len(submissions) + notices + submitListeners <= MaxSubmits
  /\ fieldClass' =
       [f \in FieldNames |->
          IF \/ f = "name"
             \/ f = "email" /\ validateField("name", fields["name"])
             \/ f = "message" /\ validateField("name", fields["name"])
                              /\ validateField("email", fields["email"])
          THEN showFieldValidation(f, fields[f])
          ELSE fieldClass[f]]
  /\ LET st == IF validateForm(fields)
               THEN SubmitListeners(submitListeners,
                                    [btn |-> submitBtn, queue |-> submissions])
               ELSE [btn |-> submitBtn, queue |-> submissions]
     IN submitBtn' = st.btn /\ submissions' = st.queue
  /\ UNCHANGED <<submitListeners, fields, notices>>
  /\ UNCHANGED <<workerVars, scrollVars, menuVars, anim>>

\* a submit event on the form: every FormValidator's handleSubmit validates
\* the form and, when it is valid, calls submitForm, which runs to its await
Submit ==
  /\ validateForm(fields)
       => Len(submissions) + notices + submitListeners <= MaxSubmits
  /\ fieldClass' = [f \in FieldNames |-> showFieldValidation(f, fields[f])]
  /\ LET st == IF validateForm(fields)
               THEN SubmitListeners(submitListeners,
                                    [btn |-> submitBtn, queue |-> submissions])
               ELSE [btn |-> submitBtn, queue |-> submissions]
     IN submitBtn' = st.btn /\ submissions' = st.queue
  /\ UNCHANGED <<submitListeners, fields, notices>>
  /\ UNCHANGED <<workerVars, scrollVars, menuVars, anim>>

\* the 2000 ms timer of the oldest submitForm fires: showSuccessMessage,
\* form.reset(), and the finally block restores the button
SubmitResolves ==
  /\ submissions # <<>>
  /\ notices' = notices + 1
  /\ fields' = [f \in FieldNames |-> <<>>]
  /\ submitBtn' = [disabled |-> FALSE, textContent |-> Head(submissions)]
  /\ submissions' = Tail(submissions)
  /\ UNCHANGED <<submitListeners, fieldClass>>
  /\ UNCHANGED <<workerVars, scrollVars, menuVars, anim>>

\* the 5000 ms timer of a success message fires: message.remove()
NoticeExpires ==
  /\ notices > 0
  /\ notices' = notices - 1
  /\ UNCHANGED <<submitListeners, fields, fieldClass, submitBtn, submissions>>
  /\ UNCHANGED <<workerVars, scrollVars, menuVars, anim>>

\* the scroll listeners of the window run for a scroll event at position y
ScrollListeners(y) ==
  /\ scrollY' = y
  /\ headerScrolled' =
       Throttled(headerInThrottle, headerScrolled, updateHeaderOnScroll(y))
  /\ buttonVisible' =
       Throttled(buttonInThrottle, buttonVisible, toggleButtonVisibility(y))
  /\ headerInThrottle' = AllInThrottle(headerInThrottle)
  /\ buttonInThrottle' = AllInThrottle(buttonInThrottle)

\* the window is scrolled to another position: a scroll event
ScrollEvent ==
  /\ \E y \in ScrollPositions \ {scrollY} : ScrollListeners(y)
  /\ UNCHANGED <<workerVars, menuVars, formVars, anim>>

\* a click on the scroll-to-top button: window.scrollTo({ top: 0 })
ScrollToTopClick ==
  /\ scrollY # 0
  /\ ScrollListeners(0)
  /\ UNCHANGED <<workerVars, menuVars, formVars, anim>>

\* the 16 ms timer of a HeaderEffects' throttle fires: inThrottle = false
HeaderThrottleTimer(i) ==
  /\ i <= Len(headerInThrottle)
  /\ headerInThrottle[i]
  /\ headerInThrottle' = [headerInThrottle EXCEPT ![i] = FALSE]
  /\ UNCHANGED <<scrollY, headerScrolled, buttonVisible, buttonInThrottle>>
  /\ UNCHANGED <<workerVars, menuVars, formVars, anim>>

\* the 100 ms timer of a ScrollToTop's throttle fires: inThrottle = false
ButtonThrottleTimer(i) ==
  /\ i <= Len(buttonInThrottle)
  /\ buttonInThrottle[i]
  /\ buttonInThrottle' = [buttonInThrottle EXCEPT ![i] = FALSE]
  /\ UNCHANGED <<scrollY, headerScrolled, buttonVisible, headerInThrottle>>
  /\ UNCHANGED <<workerVars, menuVars, formVars, anim>>

\* a timer of the typing animation fires: type(); an index that grows is
\* followed up to MaxIndex
TypeTimer ==
  /\ anim.timer
  /\ anim.isDeleting \/ anim.currentCharIndex < MaxIndex
  /\ anim' = type(anim)
  /\ UNCHANGED <<workerVars, scrollVars, menuVars, formVars>>

(* --------------------------- specifications ----------------------------- *)
Install == InstallOpen \/ InstallAddAll \/ InstallSkipWaiting
Activate == ActivateKeys \/ ActivateDelete \/ ActivateClaim \/ ActivateDone

Next ==
  \/ InstallOpen
  \/ InstallAddAll
  \/ InstallSkipWaiting
  \/ ActivateKeys
  \/ ActivateDelete
  \/ ActivateClaim
  \/ ActivateDone
  \/ \E t \in Tasks : FetchEvent(t)
  \/ \E t \in Tasks : FetchArrives(t)
  \/ \E t \in Tasks : FetchEventHeld(t)
  \/ \E t \in Tasks : ImageMatch(t)
  \/ \E t \in Tasks : ImageFetch(t)
  \/ \E t \in Tasks : ImageOpenPut(t)
  \/ \E t \in Tasks : AssetMatch(t)
  \/ \E t \in Tasks : AssetFetch(t)
  \/ \E t \in Tasks : AssetOpenPut(t)
  \/ \E t \in Tasks : PageFetch(t)
  \/ \E t \in Tasks : PageOpenPut(t)
  \/ \E t \in Tasks : PageMatch(t)
  \/ \E t \in Tasks : PageHome(t)
  \/ \E t \in Tasks : PutComplete(t)

Spec == Init /\ [][Next]_vars

\* the same program over a store whose partitions others may delete
NextEvict == Next \/ ExternalDelete

SpecEvict == Init /\ [][NextEvict]_vars

\* the same program over a store whose operations may also reject
NextEnv ==
  \/ Next
  \/ ExternalDelete
  \/ \E t \in Tasks : ImageMatchRejects(t)
  \/ \E t \in Tasks : ImageOpenRejects(t)
  \/ \E t \in Tasks : AssetMatchRejects(t)
  \/ \E t \in Tasks : AssetOpenRejects(t)
  \/ \E t \in Tasks : PageOpenRejects(t)
  \/ \E t \in Tasks : PageMatchRejects(t)
  \/ \E t \in Tasks : PageHomeRejects(t)
  \/ \E t \in Tasks : PutRejects(t)

SpecEnv == Init /\ [][NextEnv]_vars

\* the same program over a network that may leave a request unanswered; the
\* event loop runs the continuation of every await whose operation settled
NextHang == Next \/ \E t \in Tasks : FetchHangs(t)

SpecHang ==
  /\ Init
  /\ [][NextHang]_vars
  /\ \A t \in Tasks : WF_vars(HandlerStep(t))

\* the page script alone: the events of the user and the timers of the form
InitPage == Init /\ caches = <<>>

NextPage ==
  \/ reinitialize
  \/ HamburgerClick
  \/ CloseButtonClick
  \/ MenuLinkClick
  \/ OutsideClick
  \/ EscapeKey
  \/ \E f \in FieldNames : Input(f)
  \/ \E f \in FieldNames : Blur(f)
  \/ Submit
  \/ SubmitResolves
  \/ NoticeExpires

SpecPage == InitPage /\ [][NextPage]_vars

\* the page script alone: the window is scrolled
NextScroll ==
  \/ reinitialize
  \/ ScrollEvent
  \/ ScrollToTopClick
  \/ \E i \in 1 .. MaxInits : HeaderThrottleTimer(i)
  \/ \E i \in 1 .. MaxInits : ButtonThrottleTimer(i)

SpecScroll == InitPage /\ [][NextScroll]_vars

\* a TypingAnimation constructed on an element with any list of texts
InitTyping ==
  /\ PortfolioApp
  /\ \E texts \in TextLists(MaxTexts), loop \in BOOLEAN :
       anim = TypingAnimation(texts, loop)
  /\ ServiceWorkerRegistered
  /\ caches = <<>>

NextTyping == TypeTimer

SpecTyping == InitTyping /\ [][NextTyping]_vars

\* the same animation in a browser that fires every timer that was set
SpecTypingFair == SpecTyping /\ WF_vars(TypeTimer)

(* ------------------------------ properties ------------------------------ *)
StaticEntries == CacheEntries(caches, STATIC_CACHE)
DynamicEntries == CacheEntries(caches, DYNAMIC_CACHE)

\* the request identity is stored in STATIC or in DYNAMIC
InPartitions(url) == url \in DOMAIN StaticEntries \/ url \in DOMAIN DynamicEntries

\* the responses stored for the identity in STATIC and DYNAMIC
StoredFor(url) ==
  {StaticEntries[u] : u \in {url} \cap DOMAIN StaticEntries}
    \cup {DynamicEntries[u] : u \in {url} \cap DOMAIN DynamicEntries}

\* the response most recently stored for the identity: DYNAMIC is written
\* only after the install filled STATIC
LatestStored(url) ==
  IF url \in DOMAIN DynamicEntries THEN DynamicEntries[url] ELSE StaticEntries[url]

\* no partition at all holds the identity
AbsentEverywhere(url) == \A i \in 1 .. Len(caches) : url \notin DOMAIN caches[i].entries

CacheFirst(t) == Classify(req[t]) \in {"image", "asset"}
PageClass(t) == Classify(req[t]) = "page"
Synthetic404 == NewResponse("", 404)
Synthetic503 == NewResponse("Offline", 503)

\* C1: a cache-first (Image or Asset) lookup made while the identity is stored
\* in STATIC or DYNAMIC resolves the request at once with a response stored
\* for that identity, and the invocation has made no network call.
C1_CacheFirstHitNoNetwork ==
  [][\A t \in Tasks :
       (/\ pc[t] \in {"image_match", "asset_match"}
        /\ pc'[t] # pc[t]
        /\ InPartitions(req[t].url))
       => (/\ pc'[t] = "resolved"
           /\ response'[t] \in StoredFor(req[t].url)
           /\ fetchCalls'[t] = 0
           /\ caches' = caches)]_vars

C1_Witness ==
  \E t \in Tasks :
    /\ pc[t] = "resolved"
    /\ req[t].destination = "image"
    /\ fetchCalls[t] = 0
    /\ response[t] \in StoredFor(req[t].url)

\* C2: when a cache-first request that missed the cache and got an ok network
\* response resolves, DYNAMIC already holds the identity with the body of the
\* network response.
C2_StoredWhenResolved ==
  [][\A t \in Tasks :
       (/\ pc[t] # "resolved" /\ pc'[t] = "resolved"
        /\ CacheFirst(t)
        /\ fetchCalls'[t] = 1
        /\ Ok(networkResponse'[t]))
       => (/\ req[t].url \in DOMAIN CacheEntries(caches', DYNAMIC_CACHE)
           /\ CacheEntries(caches', DYNAMIC_CACHE)[req[t].url].body
                = networkResponse'[t].body)]_vars

C4_FailureYieldsStoredValue ==
  [][\A t \in Tasks :
       (/\ pc[t] = "page_match" /\ pc'[t] # pc[t]
        /\ networkResponse[t] = Undefined
        /\ InPartitions(req[t].url))
       => (/\ pc'[t] = "resolved"
           /\ response'[t] = LatestStored(req[t].url)
           /\ caches' = caches)]_vars

\* C5: an offline navigation (Page, destination document, network failed)
\* with the identity and the home document absent from every partition
\* resolves with the synthetic 503 'Offline' response.
C5_OfflineNavigation503 ==
  [][\A t \in Tasks :
       (/\ pc[t] = "page_home" /\ pc'[t] # pc[t]
        /\ req[t].destination = "document"
        /\ networkResponse[t] = Undefined
        /\ AbsentEverywhere(req[t].url)
        /\ AbsentEverywhere(IndexURL))
       => (pc'[t] = "resolved" /\ response'[t] = Synthetic503)]_vars

\* C6: for a GET request the promise given to respondWith never rejects and
\* never resolves with an absent response: the caller gets the network
\* response, a stored response or a synthetic 404/503 response.
C6_NeverRejectedNorAbsent ==
  \A t \in Tasks :
    /\ pc[t] # "rejected"
    /\ pc[t] = "resolved"
         => /\ response[t] # Undefined
            /\ \/ response[t] = networkResponse[t]
               \/ response[t] \in StoredFor(req[t].url) \cup StoredFor(IndexURL)
               \/ response[t] \in {Synthetic404, Synthetic503}

\* C7: every entry of DYNAMIC, and every write into it that was started, is
\* an ok response received from the network by the invocation that wrote it.
C7_OnlyOkNetworkResponsesStored ==
  /\ \A u \in DOMAIN DynamicEntries :
       /\ DynamicEntries[u].type = "basic"
       /\ Ok(DynamicEntries[u])
  /\ \A t \in Tasks :
       put[t].state # "none"
         => /\ put[t].response = networkResponse[t]
            /\ put[t].response \in NetworkResponses
            /\ Ok(put[t].response)
            /\ fetchCalls[t] = 1

C7_Witness ==
  /\ DOMAIN DynamicEntries # {}
  /\ \E t \in Tasks :
       /\ pc[t] = "resolved" /\ PageClass(t)
       /\ response[t] \in NetworkResponses /\ ~Ok(response[t])
       /\ req[t].url \notin DOMAIN DynamicEntries

\* C8: a request whose method is not GET is not intercepted: no handler
\* runs, no response is supplied, no lookup or network call is made, no
\* write is started, and its dispatch leaves every partition as it was.
C8_NonGetPassesThrough ==
  /\ [](\A t \in Tasks :
          (req[t] # NoRequest /\ req[t].method # "GET")
            => (/\ pc[t] \in {"held", "passthrough"}
                /\ response[t] = Undefined
                /\ networkResponse[t] = Undefined
                /\ fetchCalls[t] = 0
                /\ put[t] = NoPut))
  /\ [][events' # events => caches' = caches]_vars

C8_Witness ==
  \E t \in Tasks : pc[t] = "passthrough" /\ req[t].method = "POST"

\* C9: once the activate listener's deletions have completed, every
\* partition whose name is neither STATIC_CACHE nor DYNAMIC_CACHE is gone,
\* so at most the two current partitions exist.
C9_StaleDeletedAfterActivate ==
  (apc \in {"claim", "done"} \/ swState = "activated")
    => /\ \A name \in CacheNameSet(caches) :
            name \in {STATIC_CACHE, DYNAMIC_CACHE}
       /\ Len(caches) <= 2

C9_Witness ==
  /\ apc = "claim"
  /\ cacheNames \cap StaleNames # {}
  /\ CacheNameSet(caches) \cap StaleNames = {}

OldNames == {"static-v0.9.0", "dynamic-v0.9.0"}

\* C10 as stated: once the activate listener has run over the partitions of
\* the old version, the list of names is exactly the two current names.
C10_Original ==
  (apc = "claim" /\ OldNames \subseteq cacheNames)
    => CacheNameSet(caches) = {STATIC_CACHE, DYNAMIC_CACHE}

\* C10 amended: once the activate listener has run over the partitions of
\* the old version both old names are absent and the list is exactly the
\* current static name; the current dynamic name appears only when a fetch
\* handler opens it, so after activation the list stays within the two
\* current names and always contains the static one.
C10_ExactlyCurrentNames ==
  /\ (apc = "claim" /\ OldNames \subseteq cacheNames)
       => CacheNameSet(caches) = {STATIC_CACHE}
  /\ apc = "done"
       => /\ STATIC_CACHE \in CacheNameSet(caches)
          /\ CacheNameSet(caches) \cap OldNames = {}
          /\ DYNAMIC_CACHE \in CacheNameSet(caches) => events > 0
          /\ events = 0 => CacheNameSet(caches) = {STATIC_CACHE}

C10_Witness ==
  /\ apc = "claim"
  /\ OldNames \subseteq cacheNames
  /\ CacheNameSet(caches) = {STATIC_CACHE}

RequiredIdentities == SeqToSet(STATIC_ASSETS)

\* C11: when the static population fails, the install fails as a unit: the
\* STATIC partition holds none of the required identities and the worker is
\* not installed (nor anything later).
C11_InstallFailsAsUnit ==
  ipc = "rejected"
    => /\ RequiredIdentities \cap DOMAIN StaticEntries = {}
       /\ swState \notin {"installed", "activating", "activated"}
       /\ ipc # "done"

C11_Witness ==
  /\ ipc = "rejected"
  /\ CachesHas(caches, STATIC_CACHE)
  /\ StaticEntries = NoEntries

\* C12: when the static population fails, the worker is redundant for good:
\* it is never installed, activating or activated, skipWaiting is never
\* called, the activate listener never runs, no client is claimed and no
\* fetch event reaches it.
C12_InstallFailedIsTerminal ==
  /\ [](ipc = "rejected"
          => /\ swState = "redundant"
             /\ ~skipped
             /\ ~claimed
             /\ apc = "idle"
             /\ events = 0
             /\ \A t \in Tasks : pc[t] = "idle")
  /\ [][swState = "redundant" => swState' = "redundant" /\ caches' = caches]_vars

C12_Witness ==
  /\ swState = "redundant"
  /\ ~skipped
  /\ OldNames \subseteq CacheNameSet(caches)

\* C13 as stated: a request that arrived while the worker was activating is
\* passed through and never handled by a strategy.
C13_Original ==
  [][\A t \in Tasks :
       pc[t] = "held" => pc'[t] \in {"held", "passthrough"}]_vars

\* C13 amended: a handler runs only while the worker is activated and the
\* activate listener's work is complete; while the worker is installing or
\* installed no request reaches it; a request made while it is activating is
\* held untouched by the host and is given to the fetch listener, as any
\* other request, once the worker is activated.
C13_HandlersOnlyWhenActive ==
  /\ [](\A t \in Tasks :
          /\ pc[t] \notin {"idle", "held"}
               => (swState = "activated" /\ apc = "done")
          /\ swState \in {"installing", "installed", "redundant"}
               => pc[t] = "idle"
          /\ pc[t] = "held"
               => /\ response[t] = Undefined
                  /\ networkResponse[t] = Undefined
                  /\ fetchCalls[t] = 0
                  /\ put[t] = NoPut)
  /\ [][\A t \in Tasks :
          (pc[t] = "held" /\ pc'[t] # "held")
            => /\ swState = "activated"
               /\ pc'[t] = Dispatched(req[t])
               /\ caches' = caches]_vars

C13_Witness ==
  \E t \in Tasks :
    /\ pc[t] = "held"
    /\ req[t].method = "GET"
    /\ swState = "activated"
    /\ apc = "done"

C15_HomeDocumentFallback ==
  [][\A t \in Tasks :
       /\ (pc[t] = "page_match" /\ pc'[t] # pc[t])
            => (pc'[t] = "page_home"
                  <=> (AbsentEverywhere(req[t].url)
                         /\ req[t].destination = "document"))
       /\ (pc[t] = "page_home" /\ pc'[t] # pc[t]
             /\ ~AbsentEverywhere(IndexURL))
            => (/\ pc'[t] = "resolved"
                /\ response'[t] \in StoredFor(IndexURL)
                /\ caches' = caches)]_vars

C15_Witness ==
  \E t \in Tasks :
    /\ pc[t] = "resolved"
    /\ req[t] = Request("GET", "document", AboutURL)
    /\ fetchCalls[t] = 1
    /\ networkResponse[t] = Undefined
    /\ response[t] \in StoredFor(IndexURL)

\* C16: a Page request whose destination is not a document, whose fetch
\* failed and whose identity is in no partition resolves with the synthetic
\* response of status 503 and body 'Offline'.
C16_Offline503 ==
  [][\A t \in Tasks :
       (/\ pc[t] = "page_match" /\ pc'[t] # pc[t]
        /\ networkResponse[t] = Undefined
        /\ req[t].destination # "document"
        /\ AbsentEverywhere(req[t].url))
       => (/\ pc'[t] = "resolved"
           /\ response'[t] = [type |-> "default", status |-> 503,
                              body |-> "Offline"]
           /\ put'[t] = NoPut
           /\ caches' = caches)]_vars

C16_Witness ==
  \E t \in Tasks :
    /\ pc[t] = "resolved"
    /\ req[t] = Request("GET", "", AboutURL)
    /\ fetchCalls[t] = 1
    /\ response[t] = Synthetic503

\* C17: while the worker is activating or activated the STATIC partition
\* holds every identity of STATIC_ASSETS, and the worker leaves installing
\* only when the install chain has settled.
C17_StaticCompleteBeforeActivation ==
  /\ swState \in {"activating", "activated"}
       => RequiredIdentities \subseteq DOMAIN StaticEntries
  /\ swState # "installing" => ipc \in {"done", "rejected"}
  /\ swState \in {"installed", "activating", "activated"} => ipc = "done"

C17_Witness ==
  /\ swState = "activating"
  /\ apc = "deleting"
  /\ RequiredIdentities \subseteq DOMAIN StaticEntries

\* C18: a Page request whose fetch fails, made when an earlier successful
\* retrieval of the same identity has been written to DYNAMIC and no write
\* for it is under way, resolves with that DYNAMIC entry (the latest page).
C18_LatestPageServedOffline ==
  [][\A t \in Tasks :
       (/\ pc[t] = "page_match" /\ pc'[t] # pc[t]
        /\ networkResponse[t] = Undefined
        /\ req[t].url \in DOMAIN DynamicEntries
        /\ \A s \in Tasks : ~(put[s].state = "pending" /\ put[s].url = req[t].url))
       => (/\ pc'[t] = "resolved"
           /\ response'[t] = DynamicEntries[req[t].url])]_vars

\* C19: a Page request looks into the cache only when the fetch itself
\* failed, and once the network gave a response the request resolves with
\* that response and nothing else.
C19_CacheOnlyAfterNetworkFailure ==
  \A t \in Tasks :
    PageClass(t)
      => /\ pc[t] \in {"page_match", "page_home"}
              => (fetchCalls[t] = 1 /\ networkResponse[t] = Undefined)
         /\ (pc[t] \in {"resolved", "rejected"} /\ networkResponse[t] # Undefined)
              => (pc[t] = "resolved" /\ response[t] = networkResponse[t])

\* C20: every write that completes sets the DYNAMIC entry of its identity to
\* its own response and touches nothing else, and the entries change in no
\* other way, so after concurrent writes for one identity the single entry
\* is the response of the write that completed last; an invocation that
\* started a write has resolved with its own network response.
C20_LastWriteWins ==
  /\ [](\A t \in Tasks :
          put[t].state # "none"
            => /\ pc[t] = "resolved"
               /\ response[t] = networkResponse[t]
               /\ put[t].response = networkResponse[t]
               /\ put[t].url = req[t].url)
  /\ [][/\ \A t \in Tasks :
             (put[t].state = "pending" /\ put'[t].state = "done")
               => /\ DOMAIN CacheEntries(caches', DYNAMIC_CACHE)
                       = DOMAIN DynamicEntries \cup {put[t].url}
                  /\ CacheEntries(caches', DYNAMIC_CACHE)[put[t].url]
                       = put[t].response
                  /\ \A u \in DOMAIN DynamicEntries \ {put[t].url} :
                       CacheEntries(caches', DYNAMIC_CACHE)[u] = DynamicEntries[u]
                  /\ CacheEntries(caches', STATIC_CACHE) = StaticEntries
        /\ CacheEntries(caches', DYNAMIC_CACHE) # DynamicEntries
             => \E t \in Tasks : put[t].state = "pending" /\ put'[t].state = "done"]_vars

C20_Witness ==
  \E s, t \in Tasks :
    /\ s # t
    /\ put[s].state = "done" /\ put[t].state = "done"
    /\ put[s].url = put[t].url
    /\ put[s].response # put[t].response
    /\ pc[s] = "resolved" /\ pc[t] = "resolved"
    /\ fetchCalls[s] = 1 /\ fetchCalls[t] = 1
    /\ req[s].destination = "image"
    /\ DynamicEntries[put[t].url] = put[t].response

\* C21: once the install has completed, no step of a handler, of a write or
\* of the activate chain removes STATIC or changes an entry of it; a page
\* response for an identity of STATIC is written to DYNAMIC only.
C21_StaticUntouchedAfterInstall ==
  [][ipc = "done"
       => /\ CachesHas(caches', STATIC_CACHE)
          /\ CacheEntries(caches', STATIC_CACHE) = StaticEntries]_vars

C21_Witness ==
  /\ ipc = "done" /\ apc = "done"
  /\ \E t \in Tasks : put[t].state = "done" /\ put[t].url = IndexURL
  /\ IndexURL \in DOMAIN DynamicEntries
  /\ DynamicEntries[IndexURL] # StaticEntries[IndexURL]

\* C22: the worker's state moves only installing -> installed -> activating
\* -> activated or installing -> redundant; it leaves installing for
\* installed only when the install chain is done, and it is activated only
\* when the activate chain is done and no stale cache is left.
C22_LifecycleOrder ==
  /\ [][swState' # swState
          => <<swState, swState'>> \in { <<"installing", "installed">>,
                                         <<"installing", "redundant">>,
                                         <<"installed", "activating">>,
                                         <<"activating", "activated">> }]_vars
  /\ [](swState \in {"installed", "activating", "activated"}
          => ipc = "done" /\ RequiredIdentities \subseteq DOMAIN StaticEntries)
  /\ [](swState = "redundant" => ipc = "rejected")
  /\ [](swState = "activated"
          => apc = "done" /\ CacheNameSet(caches) \cap StaleNames = {})

C22_Witness ==
  /\ swState = "activated" /\ ipc = "done" /\ apc = "done"
  /\ skipped /\ claimed
  /\ \A t \in Tasks : pc[t] = "idle"

\* the path of the address lies under the directory of the assets
UnderAssetsPrefix(url) ==
  /\ Len(url) >= Len(AssetsMark)
  /\ SubSeq(url, 1, Len(AssetsMark)) = AssetsMark

\* C23: a GET request is given to the image handler when its destination is
\* image, else to the asset handler exactly when its path lies under the
\* assets prefix, else to the page handler.
C23_ClassifiedByPathPrefix ==
  [][\A t \in Tasks :
       (pc'[t] # pc[t] /\ pc'[t] \in {"image_match", "asset_match", "page_fetch"})
         => pc'[t] = IF req'[t].destination = "image" THEN "image_match"
                     ELSE IF UnderAssetsPrefix(req'[t].url) THEN "asset_match"
                     ELSE "page_fetch"]_vars

\* the positions inside a handler
Running ==
  {"image_match", "image_fetch", "image_open",
   "asset_match", "asset_fetch", "asset_open",
   "page_fetch", "page_open", "page_match", "page_home"}

\* C24: while the network retrieval of one fetch event hangs, every other
\* fetch event that is inside a handler, whether it began before or after,
\* goes on to resolve unless its own retrieval hangs too.
C24_HangStallsOnlyItsRequest ==
  \A t \in Tasks :
    (pc[t] \in Running /\ \E s \in Tasks \ {t} : pc[s] = "hung")
      ~> (pc[t] \in {"resolved", "hung"})

C24_Witness ==
  \E s, t \in Tasks :
    /\ s # t
    /\ pc[s] = "hung" /\ fetchCalls[s] = 1
    /\ pc[t] = "resolved" /\ fetchCalls[t] = 1
    /\ response[t] = networkResponse[t]
    /\ put[t].state = "done"

\* C25: a page request whose network response equals the entry DYNAMIC
\* already holds for it (the same request made again with the same answer)
\* changes no cache at any of its steps, its write included.
C25_RepeatedPageRequestIdempotent ==
  [][\A t \in Tasks :
       (/\ PageClass(t)
        /\ req[t].url \in DOMAIN DynamicEntries
        /\ networkResponse'[t] = DynamicEntries[req[t].url]
        /\ (pc'[t] # pc[t] \/ put'[t] # put[t]))
         => caches' = caches]_vars

C25_Witness ==
  \E s, t \in Tasks :
    /\ s # t
    /\ PageClass(s) /\ req[s] = req[t]
    /\ Ok(networkResponse[s]) /\ networkResponse[s] = networkResponse[t]
    /\ pc[s] = "resolved" /\ pc[t] = "resolved"
    /\ put[s].state = "done" /\ put[t].state = "done"
    /\ req[s].url \in DOMAIN DynamicEntries
    /\ DynamicEntries[req[s].url] = networkResponse[s]

\* C26: clients.claim() is called only when every stale cache is deleted: in
\* no state are the clients claimed while a cache with another name than
\* STATIC_CACHE or DYNAMIC_CACHE exists.
C26_ClaimAfterDeletions ==
  /\ [](claimed
          => \A i \in 1 .. Len(caches) :
               caches[i].name \in {STATIC_CACHE, DYNAMIC_CACHE})
  /\ [][(claimed' /\ ~claimed)
          => /\ swState = "activating" /\ apc = "deleting"
             /\ CacheNameSet(caches) \subseteq {STATIC_CACHE, DYNAMIC_CACHE}]_vars

C26_Witness ==
  /\ claimed /\ swState = "activating"
  /\ CACHE_NAME \in cacheNames
  /\ "dynamic-v0.9.0" \in cacheNames
  /\ CacheNameSet(caches) = {STATIC_CACHE}

\* C27: skipWaiting is called exactly when the population of STATIC
\* succeeded and only after it; the installed worker has called it and the
\* host can activate it at once, without waiting for clients to close.
C27_SkipWaitingIffPopulated ==
  /\ [](skipped
          => ipc = "done" /\ RequiredIdentities \subseteq DOMAIN StaticEntries)
  /\ [](ipc = "done" => skipped)
  /\ [](swState = "installed" => skipped /\ ENABLED ActivateKeys)
  /\ [][skipped' # skipped => ipc = "skipWaiting" /\ skipped']_vars

C27_Witness ==
  /\ swState = "installed" /\ skipped /\ ipc = "done"
  /\ apc = "idle"
  /\ Len(caches) > 1

\* C28: whatever reinitialize() calls and Escape presses came before, one
\* click on the hamburger opens the closed menu and closes the open one.
C28_ClickTogglesOnce ==
  [][HamburgerClick => menu'.mobileMenu = ~menu.mobileMenu]_vars

\* C29: when no submission is in flight the submit button is enabled and
\* has the text it had before the first submission.
C29_ButtonRestored ==
  submissions = <<>>
    => submitBtn = [disabled |-> FALSE, textContent |-> ButtonText]

\* C30: for a list of texts that is not empty, currentTextIndex is an index
\* of the list and currentCharIndex lies between 0 and the length of the
\* current text.
C30_IndicesInRange ==
  Len(anim.texts) > 0
    => /\ 0 <= anim.currentTextIndex
       /\ anim.currentTextIndex < Len(anim.texts)
       /\ 0 <= anim.currentCharIndex
       /\ anim.currentCharIndex <= Len(anim.texts[anim.currentTextIndex + 1])

\* text k of the list is the current text and the element shows all of it
DisplayedInFull(k) ==
  /\ anim.currentTextIndex = k - 1
  /\ anim.textContent = anim.texts[k]

\* C31: with loop, every text of the list is shown in full again and again
\* and the current text only ever moves to the next one of the list, the
\* first after the last; without loop, no timer is set once the first text
\* is shown in full.
C31_TypingProgress ==
  /\ \A k \in 1 .. MaxTexts :
       []<>((anim.loop /\ k <= Len(anim.texts)) => DisplayedInFull(k))
  /\ [][anim'.currentTextIndex # anim.currentTextIndex
          => anim'.currentTextIndex
               = (anim.currentTextIndex + 1) % Len(anim.texts)]_vars
  /\ []((~anim.loop /\ Len(anim.texts) > 0 /\ DisplayedInFull(1))
          => ~anim.timer)

\* no throttle timer is pending: unless the window is scrolled again,
\* nothing changes any more
ScrollSettled ==
  /\ \A i \in 1 .. Len(headerInThrottle) : ~headerInThrottle[i]
  /\ \A i \in 1 .. Len(buttonInThrottle) : ~buttonInThrottle[i]

\* C32: when the scroll events have stopped and every throttle window has
\* ended, the header has class scrolled exactly if scrollY > 100 and the
\* scroll-to-top button has class visible exactly if scrollY > 300.
C32_ClassesReflectFinalScroll ==
  ScrollSettled
    => /\ headerScrolled <=> scrollY > 100
       /\ buttonVisible <=> scrollY > 300

\* C33: a submit event starts submitForm (once for every submit listener)
\* exactly when every required field passes validateField, it leaves on
\* every required field the class of its own validation, whichever fields
\* before it failed, and no step ever starts a submission of a form with a
\* field that does not pass.
C33_SubmitIffAllValid ==
  /\ [][Submit
          => /\ (submissions' # submissions)
                  <=> (\A f \in FieldNames : validateField(f, fields[f]))
             /\ Len(submissions') \in {Len(submissions),
                                       Len(submissions) + submitListeners}
             /\ \A f \in FieldNames :
                  fieldClass'[f]
                    = IF validateField(f, fields[f]) THEN "valid" ELSE "error"]_vars
  /\ [][Len(submissions') > Len(submissions)
          => \A f \in FieldNames : validateField(f, fields[f])]_vars

C33_Witness ==
  /\ submissions = <<ButtonText>>
  /\ submitBtn = [disabled |-> TRUE, textContent |-> SendingText]
  /\ \A f \in FieldNames : fieldClass[f] = "valid"
  /\ fields["name"] = <<"A", "l">>
  /\ fields["email"] = <<"a", "@", "b", ".", "c">>
  /\ Len(fields["message"]) >= 10

\* C34: the menu has class active exactly if the hamburger has class active
\* and exactly if the overflow of the body is hidden, after any clicks on the
\* hamburger, the close button, a menu link or the backdrop and any Escape.
C34_OpenStateAgrees ==
  /\ menu.mobileMenu <=> menu.hamburger
  /\ menu.mobileMenu <=> menu.overflow = "hidden"
  /\ menu.overflow \in {"", "hidden"}

C34_Witness ==
  /\ menu.mobileMenu /\ menu.hamburger /\ menu.overflow = "hidden"
  /\ menu.focus = "closeBtn"
  /\ hamburgerListeners = 1

====
